---- MODULE Spec2Model ----
(***************************************************************************)
(* explore-with-gdb: gdb breakpoints that capture stack traces, tidy the   *)
(* frame names and aggregate the traces into a call graph.                 *)
(*                                                                         *)
(* Modelled scripts:                                                       *)
(*   "basic"        src/python/view_call_graph.py                          *)
(*   "interactive"  src/view_call_graph_interactive.py                     *)
(* A python string is a tuple of one-character strings, so that replace,   *)
(* startswith and re.split act on characters as they do in the code.       *)
(***************************************************************************)
EXTENDS Integers, Sequences, FiniteSets, TLC

\* ------------------------------------------------------------------ bounds
\* captures kept per breakpoint object in Spec
MaxStacks == 2
\* captures kept per breakpoint object in SpecPair
MaxPairStacks == 2
\* captures of the looping debuggee in SpecLong
MaxLongStacks == 258
\* the rows at the table's end that get selected in SpecLong
LastRows == 3
\* pieces concatenated into one raw name in SpecTidy
MaxPieces == 3

\* ------------------------------------------------------- python primitives
\* A python value that is None or an int: None is <<>>, the int k is PyInt(k)
None == <<>>
PyInt(k) == <<k>>

Range(f) == {f[i] : i \in DOMAIN f}

Drop(s, n) == SubSeq(s, n + 1, Len(s))

\* str.startswith
startswith(s, p) == Len(p) <= Len(s) /\ SubSeq(s, 1, Len(p)) = p

\* str.find: the index of the first occurrence of p in s, 0 when there is none
find(s, p) ==
  LET occ == {i \in 1..(Len(s) - Len(p) + 1) : SubSeq(s, i, i + Len(p) - 1) = p}
  IN  IF occ = {} THEN 0 ELSE CHOOSE i \in occ : \A j \in occ : i <= j

\* str.replace(p, ""): every non-overlapping occurrence, scanning left to right
RECURSIVE replace_with_empty(_, _)
replace_with_empty(s, p) ==
  LET i == find(s, p)
  IN  IF i = 0 THEN s
      ELSE SubSeq(s, 1, i - 1) \o replace_with_empty(Drop(s, i + Len(p) - 1), p)

\* "".join(re.split("\(|\)", s)[::2]): re.split cuts s at every parenthesis,
\* [::2] keeps the segments with an even number of parentheses before them
split_even_join(s) ==
  LET parens(i) == Cardinality({j \in 1..(i - 1) : s[j] \in {"(", ")"}})
      kept == {i \in 1..Len(s) : s[i] \notin {"(", ")"} /\ parens(i) % 2 = 0}
      nth(k) == CHOOSE i \in kept : Cardinality({j \in kept : j <= i}) = k
  IN  [k \in 1..Cardinality(kept) |-> s[nth(k)]]

ArrowNs == <<"a","r","r","o","w",":",":">>
EngineNs == <<"e","n","g","i","n","e",":",":">>
StdNs == <<"s","t","d",":",":">>
AnonNs == <<"(","a","n","o","n","y","m","o","u","s"," ","n","a","m","e","s","p","a","c","e",")",":",":">>
Family == <<"C","h","e","c","k","N","o","t","Y","e","t","I","m","p","l","e","m","e","n","t","e","d","T","e","s","t","C","a","s","e">>

\* tidy(function_name)
tidy(function_name) ==
  LET n1 == replace_with_empty(function_name, ArrowNs)
      n2 == replace_with_empty(n1, EngineNs)
      n3 == replace_with_empty(n2, StdNs)
      n4 == replace_with_empty(n3, AnonNs)
      n5 == IF startswith(n4, Family) THEN Family ELSE n4
  IN  split_even_join(n5)

\* ------------------------------------------------------------------- state
VARIABLES
  script,               \* per breakpoint object: which script defines its class
  function_names,       \* self.function_names: the set, in its iteration order
  stacks,               \* self.stacks / self.stacks_and_locals
  function_names_list,  \* self.function_names_list
  edges,                \* self.edges
  dot,                  \* self.dot: the Digraph's node and edge statements
  rows,                 \* the table's selectable rows (user_data) while shown
  last,                 \* the handler that ran last on the object, and its outcome
  tidy_hist             \* a raw name and the results of tidy applied to it in turn

vars == <<script, function_names, stacks, function_names_list, edges, dot,
          rows, last, tidy_hist>>

graph_vars == <<script, function_names, stacks, function_names_list, edges,
                dot, rows, last>>

Sessions == DOMAIN script

\* ---------------------------------------------------------- the debuggee
\* gdb.Frame.function() is None for a frame without a symbol
NoFunction == "NoFunction"

RawLeaf == <<"a","r","r","o","w",":",":","C","(","i","n","t",")">>
RawB == <<"e","n","g","i","n","e",":",":","B">>
RawA == <<"A">>
RawC == <<"C">>
RawD == <<"s","t","d",":",":","D">>

\* One breakpoint stop: the frame chain from gdb.selected_frame() outwards
\* (frame.older()), each frame by what frame.function() gives, and the symbols
\* of the selected frame's block with their formatted values.
StopABC == [frames |-> <<RawLeaf, RawB, RawA>>,
            locals |-> <<[name |-> "i", value |-> "0"]>>]
StopADC == [frames |-> <<RawC, RawD, RawA>>,
            locals |-> <<[name |-> "i", value |-> "1"]>>]
StopOne == [frames |-> <<RawA>>,
            locals |-> <<[name |-> "i", value |-> "2"]>>]
StopNoSymbol == [frames |-> <<RawD, NoFunction, RawA>>,
                 locals |-> <<[name |-> "i", value |-> "3"]>>]
StopDeep == [frames |-> <<RawC, RawB, RawB, RawB, RawB, RawB, RawB, RawB, RawB,
                          RawB, RawB, RawA>>,
             locals |-> <<[name |-> "i", value |-> "4"]>>]

\* the stops of the debuggee of Spec
Stops == {StopABC, StopOne, StopNoSymbol, StopDeep}

\* tidy, tabulated over the function names the debuggee has
FunctionNames == {RawLeaf, RawA, RawB, RawC, RawD}
tidied == [n \in FunctionNames |-> tidy(n)]

\* ------------------------------------------------------------- set / list
Perms(S) == {p \in [1..Cardinality(S) -> S] : Range(p) = S}

\* set.add that adds nothing
set_add_forgets(order, x) == {order}

\* set.add(x): python leaves a set's iteration order unspecified; a member that is
\* added may land anywhere and may move the others (the table is rehashed when
\* it grows). A set that does not change keeps its order.
set_add(order, x) ==
  IF x \in Range(order) THEN {order} ELSE Perms(Range(order) \cup {x})

\* list.index(x): the 0-based position of the first x
index(list, x) ==
  (CHOOSE i \in 1..Len(list) : list[i] = x /\ \A j \in 1..(i - 1) : list[j] # x) - 1

\* an insert at the front in place of list.append
append_front(list, x) == <<x>> \o list

\* list.append
append(list, x) == Append(list, x)

\* `a is b` on an int or None: CPython keeps one object per int in
\* [-NSMALLNEGINTS, NSMALLPOSINTS) and for None; any other int the loop's
\* enumerate() yields is a fresh object, distinct from the one passed in.
NSMALLPOSINTS == 257
NSMALLNEGINTS == 5
is(a, b) ==
  /\ a = b
  /\ (a = None \/ (a[1] >= -NSMALLNEGINTS /\ a[1] < NSMALLPOSINTS))

\* ------------------------------------------- StackTraceBreakpoint.stop
\* the frames the while loop reads before frame.function().name raises
\* AttributeError (all of them when every frame has a function)
frames_read(frames) ==
  LET bad == {i \in 1..Len(frames) : frames[i] = NoFunction}
      n == IF bad = {} THEN Len(frames)
           ELSE (CHOOSE i \in bad : \A j \in bad : i <= j) - 1
  IN  [k \in 1..n |-> tidied[frames[k]]]

stop_raises(frames) == \E i \in 1..Len(frames) : frames[i] = NoFunction

\* self.function_names.add(...) for each name in turn: the orders the set can
\* end in
RECURSIVE add_all(_, _)
add_all(orders, names) ==
  IF names = <<>> THEN orders
  ELSE add_all(UNION {set_add(o, Head(names)) : o \in orders}, Tail(names))

\* what self.stacks.append / self.stacks_and_locals.append stores
trace_entry(scr, stack, frame_locals) ==
  IF scr = "basic" THEN stack ELSE <<stack, frame_locals>>

stack_of(scr, entry) == IF scr = "basic" THEN entry ELSE entry[1]

stop(s, events, max) ==
  /\ rows[s] = {}
  /\ Len(stacks[s]) < max
  /\ \E ev \in events :
       LET stack == frames_read(ev.frames) IN
       /\ \E order \in add_all({function_names[s]}, stack) :
            function_names' = [function_names EXCEPT ![s] = order]
       /\ IF stop_raises(ev.frames)
          THEN /\ UNCHANGED stacks
               /\ last' = [last EXCEPT ![s] =
                            [op |-> "stop", arg |-> None, raised |-> "AttributeError"]]
          ELSE /\ stacks' = [stacks EXCEPT ![s] =
                              append(@, trace_entry(script[s], stack, ev.locals))]
               /\ last' = [last EXCEPT ![s] =
                            [op |-> "stop", arg |-> None, raised |-> "none"]]
  /\ UNCHANGED <<script, function_names_list, edges, dot, rows, tidy_hist>>

\* ------------------------------ StackTraceBreakpoint.create_and_view_graph
\* the edge with caller and callee taken the wrong way round
edge_reversed(scr, list, stack, i, stack_index, selected_stack_index) ==
  LET from_node == index(list, stack[i])
      to_node == index(list, stack[i + 1])
  IN  IF scr = "basic"
      THEN <<ToString(from_node), ToString(to_node)>>
      ELSE <<ToString(from_node), ToString(to_node),
             IF is(PyInt(stack_index), selected_stack_index) THEN "red" ELSE "black">>

\* the edge one (stack_index, i) iteration adds to self.edges
edge(scr, list, stack, i, stack_index, selected_stack_index) ==
  LET from_node == index(list, stack[i + 1])
      to_node == index(list, stack[i])
  IN  IF scr = "basic"
      THEN <<ToString(from_node), ToString(to_node)>>
      ELSE <<ToString(from_node), ToString(to_node),
             IF is(PyInt(stack_index), selected_stack_index) THEN "red" ELSE "black">>

\* The state create_and_view_graph leaves: the list, the Digraph's nodes, the
\* edge set, the edges emitted to the Digraph, and ValueError when list.index
\* misses a name (the edges added before it stay, none is emitted).
graph(scr, names, stks, selected_stack_index) ==
  LET list == names
      nodes == [k \in 1..Len(list) |-> <<ToString(k - 1), list[k]>>]
      stk(si) == stack_of(scr, stks[si + 1])
      iters == UNION {{<<si, i>> : i \in 1..(Len(stk(si)) - 1)} :
                        si \in 0..(Len(stks) - 1)}
      before(a, b) == a[1] < b[1] \/ (a[1] = b[1] /\ a[2] < b[2])
      misses(it) == \/ stk(it[1])[it[2] + 1] \notin Range(list)
                    \/ stk(it[1])[it[2]] \notin Range(list)
      bad == {it \in iters : misses(it)}
      done == IF bad = {} THEN iters
              ELSE LET first == CHOOSE b \in bad : \A c \in bad : b = c \/ before(b, c)
                   IN  {it \in iters : before(it, first)}
      es == {edge(scr, list, stk(it[1]), it[2], it[1], selected_stack_index) :
               it \in done}
  IN  [function_names_list |-> list,
       edges |-> es,
       dot |-> [nodes |-> nodes, edges |-> IF bad = {} THEN es ELSE {}],
       raised |-> IF bad = {} THEN "none" ELSE "ValueError"]

\* g is graph(...) of the object's state and the call's argument
create_and_view_graph(s, g) ==
  /\ function_names_list' = [function_names_list EXCEPT ![s] = g.function_names_list]
  /\ edges' = [edges EXCEPT ![s] = g.edges]
  /\ dot' = [dot EXCEPT ![s] = g.dot]

\* the arguments a caller at the gdb prompt may pass: the basic script's method
\* takes none; the interactive one's takes None, a trace index, or an integer
\* that is no index of a captured trace
selections(s) ==
  IF script[s] = "basic" THEN {None}
  ELSE {None} \cup {PyInt(k) : k \in (0..Len(stacks[s])) \cup {99}}

\* create_and_view_graph called on the object from the gdb prompt
view_graph(s) ==
  /\ rows[s] = {}
  /\ \E sel \in selections(s) :
       LET g == graph(script[s], function_names[s], stacks[s], sel) IN
       /\ create_and_view_graph(s, g)
       /\ last' = [last EXCEPT ![s] =
                    [op |-> "view", arg |-> sel, raised |-> g.raised]]
  /\ UNCHANGED <<script, function_names, stacks, rows, tidy_hist>>

\* ------------------------------------ create_and_show_stack_table, on_exit
\* stack[-12] of the row's stack
TestNameDepth == 12

\* IndexError from self.stacks_and_locals[0] or from stack[-12], else none
table_raised(s) ==
  IF \/ stacks[s] = <<>>
     \/ \E k \in 1..Len(stacks[s]) :
          Len(stack_of(script[s], stacks[s][k])) < TestNameDepth
  THEN "IndexError" ELSE "none"

\* ExitBreakpoint.stop -> on_exit: the graph without a selection, then the
\* table, whose rows stay selectable until the viewport is closed
on_exit(s) ==
  /\ script[s] = "interactive"
  /\ rows[s] = {}
  /\ LET g == graph(script[s], function_names[s], stacks[s], None)
         raised == IF g.raised # "none" THEN g.raised ELSE table_raised(s)
     IN  /\ create_and_view_graph(s, g)
         /\ rows' = [rows EXCEPT ![s] =
                      IF raised = "none"
                      THEN {PyInt(k) : k \in 0..(Len(stacks[s]) - 1)} ELSE {}]
         /\ last' = [last EXCEPT ![s] =
                      [op |-> "exit", arg |-> None, raised |-> raised]]
  /\ UNCHANGED <<script, function_names, stacks, tidy_hist>>

\* on_row_select(sender, app_data, user_data)
on_row_select(s, user_data) ==
  /\ user_data \in rows[s]
  /\ LET g == graph(script[s], function_names[s], stacks[s], user_data) IN
     /\ create_and_view_graph(s, g)
     /\ last' = [last EXCEPT ![s] =
                  [op |-> "select", arg |-> user_data, raised |-> g.raised]]
  /\ UNCHANGED <<script, function_names, stacks, rows, tidy_hist>>

\* the viewport is closed: start_dearpygui returns, destroy_context
close_table(s) ==
  /\ rows[s] # {}
  /\ rows' = [rows EXCEPT ![s] = {}]
  /\ UNCHANGED <<script, function_names, stacks, function_names_list, edges,
                 dot, last, tidy_hist>>

\* ------------------------------------------------------------ one session
\* StackTraceBreakpoint.__init__ ; function_names_list, edges and dot are set
\* by the first create_and_view_graph
init_objects(ss, scripts) ==
  /\ script \in [ss -> scripts]
  /\ function_names = [s \in ss |-> <<>>]
  /\ stacks = [s \in ss |-> <<>>]
  /\ function_names_list = [s \in ss |-> <<>>]
  /\ edges = [s \in ss |-> {}]
  /\ dot = [s \in ss |-> [nodes |-> <<>>, edges |-> {}]]
  /\ rows = [s \in ss |-> {}]
  /\ last = [s \in ss |-> [op |-> "init", arg |-> None, raised |-> "none"]]
  /\ tidy_hist = <<>>

Init == init_objects({1}, {"basic", "interactive"})

Stop == \E s \in Sessions : stop(s, Stops, MaxStacks)

ViewGraph == \E s \in Sessions : view_graph(s)

OnExit == \E s \in Sessions : on_exit(s)

OnRowSelect == \E s \in Sessions : \E user_data \in rows[s] : on_row_select(s, user_data)

CloseTable == \E s \in Sessions : close_table(s)

Next == Stop \/ ViewGraph \/ OnExit \/ OnRowSelect \/ CloseTable

Spec == Init /\ [][Next]_vars

\* --------------------------------------- two sessions of the basic script
\* Two breakpoint objects that capture independently of each other, on a
\* debuggee that reaches C through B and through D.
PairStops == {StopABC, StopADC}

InitPair == init_objects({1, 2}, {"basic"})

StopPair == \E s \in Sessions : stop(s, PairStops, MaxPairStacks)

NextPair == StopPair \/ ViewGraph

SpecPair == InitPair /\ [][NextPair]_vars

\* ------------------------------------------------ a long interactive session
\* A debuggee that reaches the breakpoint MaxLongStacks times along one call
\* chain and then calls exit; rows at the end of the table are then selected.
InitLong == init_objects({1}, {"interactive"})

StopLoop == \E s \in Sessions : stop(s, {StopDeep}, MaxLongStacks)

ExitLoop == \E s \in Sessions : Len(stacks[s]) = MaxLongStacks /\ on_exit(s)

SelectLast ==
  \E s \in Sessions : \E user_data \in rows[s] :
    /\ user_data[1] >= MaxLongStacks - LastRows
    /\ on_row_select(s, user_data)

NextLong == StopLoop \/ ExitLoop \/ SelectLast \/ CloseTable

SpecLong == InitLong /\ [][NextLong]_vars

\* ------------------------------------------------------ tidy on its own
P_ar == <<"a","r">>
P_row == <<"r","o","w",":",":">>
P_Foo == <<"F","o","o">>
P_open == <<"(">>
P_close == <<")">>
P_X == <<"X">>

\* the pieces raw names are assembled from
Pieces == {ArrowNs, StdNs, AnonNs, Family, P_ar, P_row, P_Foo, P_open, P_close, P_X}

RECURSIVE RawNames(_)
RawNames(n) ==
  IF n = 0 THEN {<<>>}
  ELSE LET shorter == RawNames(n - 1)
       IN  shorter \cup {r \o p : r \in shorter, p \in Pieces}

InitTidy ==
  /\ script = <<>>
  /\ function_names = <<>>
  /\ stacks = <<>>
  /\ function_names_list = <<>>
  /\ edges = <<>>
  /\ dot = <<>>
  /\ rows = <<>>
  /\ last = <<>>
  /\ \E r \in RawNames(MaxPieces) : tidy_hist = <<r>>

\* one more application of tidy to the latest result
TidyCall ==
  /\ Len(tidy_hist) \in 1..2
  /\ tidy_hist' = Append(tidy_hist, tidy(tidy_hist[Len(tidy_hist)]))
  /\ UNCHANGED graph_vars

NextTidy == TidyCall

SpecTidy == InitTidy /\ [][NextTidy]_vars

\* ------------------------------------------------------------------ claims
\* create_and_view_graph ran last on object s and got past its edge loop, so
\* the graph it left was computed from the traces s holds now
GraphCurrent(s) ==
  /\ last[s].op \in {"view", "select", "exit"}
  /\ last[s].raised # "ValueError"

TraceOf(s, k) == stack_of(script[s], stacks[s][k + 1])

\* the distinct (caller, callee) pairs of adjacent frames of one trace
TraceAdjacencies(stack) == {<<stack[i + 1], stack[i]>> : i \in 1..(Len(stack) - 1)}

\* ... and of all the traces of s
Adjacencies(s) ==
  UNION {TraceAdjacencies(TraceOf(s, k)) : k \in 0..(Len(stacks[s]) - 1)}

NodeIds(s) == {n[1] : n \in Range(dot[s].nodes)}

\* the (caller name, callee name) pairs the emitted edges stand for, by the
\* labels of the emitted nodes
NamedEdges(s) ==
  LET label == [id \in NodeIds(s) |->
                  CHOOSE name \in Range(function_names_list[s]) :
                    <<id, name>> \in Range(dot[s].nodes)]
  IN  {<<label[e[1]], label[e[2]]>> :
         e \in {x \in dot[s].edges : x[1] \in NodeIds(s) /\ x[2] \in NodeIds(s)}}

\* the identifier the latest aggregation gave a name
IdOf(s, name) == ToString(index(function_names_list[s], name))

\* C1: after any captures and for any selection, the number of edges emitted
\* equals the number of distinct (caller, callee) adjacencies of the traces.
C1_OneEdgePerAdjacency ==
  \A s \in Sessions :
    GraphCurrent(s) => Cardinality(dot[s].edges) = Cardinality(Adjacencies(s))

\* C2: a name that an aggregation gave identifier k keeps identifier k in every
\* later aggregation of the session.
C2_StableIdentifiers ==
  [][\A s \in Sessions : Range(dot[s].nodes) \subseteq Range(dot'[s].nodes)]_vars

\* C3: for a valid trace index k, the red edges of create_and_view_graph(k) are
\* exactly the pairs (id(frame[i+1]), id(frame[i])) of trace k.
C3_RedEdgesAreTheTrace ==
  \A s \in Sessions :
    (/\ script[s] = "interactive"
     /\ last[s].op \in {"view", "select"}
     /\ last[s].raised = "none"
     /\ last[s].arg # None
     /\ last[s].arg[1] \in 0..(Len(stacks[s]) - 1))
    => {<<e[1], e[2]>> : e \in {x \in dot[s].edges : x[3] = "red"}}
         = {<<IdOf(s, a[1]), IdOf(s, a[2])>> :
              a \in TraceAdjacencies(TraceOf(s, last[s].arg[1]))}

\* C4: a highlight request whose index is no captured trace's fails with an
\* out-of-range error.
C4_BadIndexRaises ==
  \A s \in Sessions :
    (/\ last[s].op \in {"view", "select"}
     /\ last[s].arg # None
     /\ last[s].arg[1] \notin 0..(Len(stacks[s]) - 1))
    => last[s].raised # "none"

\* C5: a capture whose frame traversal faults part-way still appends one trace.
C5_FaultedCaptureAppends ==
  [][\A s \in Sessions :
       (/\ last'[s].op = "stop"
        /\ last'[s].raised = "AttributeError"
        /\ <<function_names[s], last[s]>> # <<function_names'[s], last'[s]>>)
       => Len(stacks'[s]) = Len(stacks[s]) + 1]_vars

\* the number of times x occurs in a sequence
Count(seq, x) == Cardinality({i \in 1..Len(seq) : seq[i] = x})

SameMultiset(a, b) ==
  /\ Len(a) = Len(b)
  /\ \A x \in Range(a) \cup Range(b) : Count(a, x) = Count(b, x)

\* C6: two sessions that captured the same multiset of traces in different
\* orders aggregate to identical nodes (identifier and name) and edges.
C6_OrderIndependent ==
  (/\ Sessions = {1, 2}
   /\ GraphCurrent(1) /\ GraphCurrent(2)
   /\ stacks[1] # stacks[2]
   /\ SameMultiset(stacks[1], stacks[2]))
  => /\ Range(dot[1].nodes) = Range(dot[2].nodes)
     /\ dot[1].edges = dot[2].edges

\* C7: tidy(tidy(r)) = tidy(r) for every raw name r.
C7_TidyIdempotent ==
  Len(tidy_hist) = 3 => tidy_hist[3] = tidy_hist[2]

\* C8: every name of a stored trace is in function_names, the aggregation's
\* lookups never fail, and every edge endpoint is an emitted node.
C8_EndpointsAreNodes ==
  \A s \in Sessions :
    /\ \A k \in 0..(Len(stacks[s]) - 1) :
         Range(TraceOf(s, k)) \subseteq Range(function_names[s])
    /\ last[s].raised # "ValueError"
    /\ \A e \in edges[s] \cup dot[s].edges : e[1] \in NodeIds(s) /\ e[2] \in NodeIds(s)

\* an aborted capture left a name that no trace holds, and the graph was built
C8_Witness ==
  \E s \in Sessions :
    /\ GraphCurrent(s)
    /\ dot[s].edges # {}
    /\ \E n \in Range(function_names[s]) :
         \A k \in 0..(Len(stacks[s]) - 1) : n \notin Range(TraceOf(s, k))

\* C9: the edges are exactly the pairs (frame[i+1], frame[i]) of all traces,
\* caller first: none reversed, none from a one-frame trace, a self-loop for
\* two equal adjacent frames.
C9_EdgesAreAdjacencies ==
  \A s \in Sessions :
    GraphCurrent(s) =>
      /\ NamedEdges(s) = Adjacencies(s)
      /\ {<<e[1], e[2]>> : e \in edges[s]} = {<<e[1], e[2]>> : e \in dot[s].edges}

\* a graph of a one-frame trace and a trace with a self-loop
C9_Witness ==
  \E s \in Sessions :
    /\ GraphCurrent(s)
    /\ \E k \in 0..(Len(stacks[s]) - 1) : Len(TraceOf(s, k)) = 1
    /\ \E e \in dot[s].edges : e[1] = e[2]
    /\ \E e \in dot[s].edges : e[1] # e[2]

\* C10: the trace collection only grows at its end: a completed capture appends
\* one trace, and no capture, aggregation or highlight request changes, removes
\* or reorders a stored trace.
C10_AppendOnly ==
  [][\A s \in Sessions :
       /\ Len(stacks'[s]) \in {Len(stacks[s]), Len(stacks[s]) + 1}
       /\ SubSeq(stacks'[s], 1, Len(stacks[s])) = stacks[s]
       /\ (/\ last'[s].op = "stop"
           /\ last'[s].raised = "none"
           /\ <<function_names[s], stacks[s], last[s]>>
                # <<function_names'[s], stacks'[s], last'[s]>>)
          => Len(stacks'[s]) = Len(stacks[s]) + 1
       /\ last'[s].op # "stop" => stacks'[s] = stacks[s]]_vars

\* two different traces are stored and a highlight request has run
C10_Witness ==
  \E s \in Sessions :
    /\ Len(stacks[s]) = 2
    /\ stacks[s][1] # stacks[s][2]
    /\ last[s].op \in {"view", "select"}
    /\ last[s].arg # None


====
